---- MODULE Spec2Model ----
(***************************************************************************)
(* Model of the commit-authenticity heuristic engine of EthDelhi/agent:    *)
(* HackathonAnalyzer.analyze_repository in src/commits.py.  One run of the *)
(* analyzer is a state machine whose steps are the responses of the remote *)
(* commit API; the report is assembled by the step that ends the loop.     *)
(* Spec is that run, SpecCtor the run from the call of the constructor on, *)
(* SpecLarge the run on a repository larger than one list response,        *)
(* SpecPct the contributor percentages on their own, SpecScore the scoring *)
(* behind the fetch loop on its own, SpecApi one request to the /analyze   *)
(* entry point of src/github_agent and SpecContrib the end of its          *)
(* get_contributor_stats.  SpecRelay is the relay of POST requests between *)
(* ReceiverAgent (src/reciever.py) and agent2 (src/agent2.py); SpecChat    *)
(* and SpecChatFair are the handle_chat_message of the atomspace agents    *)
(* (src/atomspace_agent.py, src/sponser_agent/atomspace_agent.py).         *)
(***************************************************************************)
EXTENDS Integers, Sequences, FiniteSets, TLC

VARIABLES pc, requests_remaining, commits_hdr, commits, attempt,
          contributor_stats, i, commit_analyses, report,
          commits_status, stats_status, detail_status, request_sent,
          remote_len, args, raised

\* the state of one request to the /analyze entry point of src/github_agent
VARIABLES ga_pc, remote, response_status, page, commits_page, page_i,
          all_commits, contributors, metadata, content, result

ga_vars == <<ga_pc, remote, response_status, page, commits_page, page_i,
             all_commits, contributors, metadata, content, result>>

\* src/reciever.py and src/agent2.py: the storage slot of ReceiverAgent, the
\* POST requests it is handling, and the messages in flight between the
\* two agents
VARIABLES last_response, posts, to_agent2, to_receiver

relay_vars == <<last_response, posts, to_agent2, to_receiver>>

\* src/atomspace_agent.py and src/sponser_agent/atomspace_agent.py: which of
\* the two agents runs, the position of its handle_chat_message, the
\* message it handles with the locals of the handler, and the replies sent
VARIABLES agent, chat_pc, chat_msg, metrics, l, response_text, exception, sent,
          received

chat_vars == <<agent, chat_pc, chat_msg, metrics, l, response_text, exception,
               sent, received>>

agent_vars == <<relay_vars, chat_vars>>

\* the state of the analyzer of src/commits.py
core_vars == <<pc, requests_remaining, commits_hdr, commits, attempt,
               contributor_stats, i, commit_analyses, report,
               commits_status, stats_status, detail_status, request_sent,
               remote_len>>

vars == <<core_vars, args, raised, ga_vars, agent_vars>>

----------------------------------------------------------------------------
(* Bounds of the model *)

MaxCommits == 2
MaxContrib == 2
\* the most contributors of the stats given to the percentage computation
\* when it is checked on its own
MaxPctContrib == 6
\* the most POST requests made to ReceiverAgent
MaxPosts == 2
\* the most ChatMessages delivered to an atomspace agent
MaxChat == 2
\* the most sponsor APIs a verification request names
MaxApis == 2

----------------------------------------------------------------------------
(* IEEE-754 binary64 arithmetic on the values the scorer works with.       *)
(* A double of magnitude below 4 that is a multiple of 2^-54 is held as a  *)
(* sign and the integer |x| * 2^54 split into three limbs of 18 bits       *)
(* (a most significant), so that every limb fits a machine integer.        *)

Base == 2^18

Dbl(neg, a, b, c) == [neg |-> neg, a |-> a, b |-> b, c |-> c]

\* the float literals of src/commits.py, from float.hex():
\* 1.0 = 0x1.0p+0, 0.5 = 0x1.0p-1, 0.3 = 0x1.3333333333333p-2,
\* 0.4 = 0x1.999999999999ap-2, 0.7 = 0x1.6666666666666p-1
F_1_0 == Dbl(FALSE, 262144, 0, 0)
F_0_5 == Dbl(FALSE, 131072, 0, 0)
F_0_3 == Dbl(FALSE, 78643, 52428, 209715)
F_0_4 == Dbl(FALSE, 104857, 157286, 104858)
F_0_7 == Dbl(FALSE, 183500, 209715, 52428)

MagIsZero(x) == x.a = 0 /\ x.b = 0 /\ x.c = 0

MagLess(x, y) ==
    \/ x.a < y.a
    \/ x.a = y.a /\ x.b < y.b
    \/ x.a = y.a /\ x.b = y.b /\ x.c < y.c

\* limb-wise sum and difference with carry / borrow (MagSub needs x >= y)
MagAdd(neg, x, y) ==
    LET c == x.c + y.c
        b == x.b + y.b + (c \div Base)
        a == x.a + y.a + (b \div Base)
    IN  Dbl(neg, a, b % Base, c % Base)

MagSub(neg, x, y) ==
    LET c == x.c - y.c
        b == x.b - y.b + (c \div Base)
        a == x.a - y.a + (b \div Base)
    IN  Dbl(neg, a, b % Base, c % Base)

\* round-to-nearest, ties-to-even, to 53 significant bits: the unit in the
\* last place is 2^-54 below 0.5, 2^-53 in [0.5, 1) and 2^-52 in [1, 2)
RoundDbl(x) ==
    LET u    == IF x.a < Base \div 2 THEN 1 ELSE IF x.a < Base THEN 2 ELSE 4
        r    == x.c % u
        down == x.c - r
        up   == down + u
        c    == IF 2 * r < u THEN down
                ELSE IF 2 * r > u THEN up
                ELSE IF (down \div u) % 2 = 0 THEN down ELSE up
    IN  MagAdd(x.neg, Dbl(FALSE, x.a, x.b, 0), Dbl(FALSE, 0, 0, c))

\* x - y of two doubles, correctly rounded (x - x is +0.0)
FSub(x, y) ==
    LET yneg == ~y.neg
        raw  == IF x.neg = yneg THEN MagAdd(x.neg, x, y)
                ELSE IF MagLess(x, y) THEN MagSub(yneg, y, x)
                ELSE IF MagLess(y, x) THEN MagSub(x.neg, x, y)
                ELSE Dbl(FALSE, 0, 0, 0)
    IN  RoundDbl(raw)

\* x < y on doubles (-0.0 and +0.0 compare equal)
FLess(x, y) ==
    IF x.neg /\ ~y.neg THEN ~(MagIsZero(x) /\ MagIsZero(y))
    ELSE IF ~x.neg /\ y.neg THEN FALSE
    ELSE IF x.neg THEN MagLess(y, x)
    ELSE MagLess(x, y)

\* round(x, 2): the nearest hundredth of the exact value of x, ties to even,
\* as a signed number of hundredths (round(-0.0, 2) is -0.0, which is 0)
Round2(x) ==
    LET c1   == 100 * x.c
        b1   == 100 * x.b + (c1 \div Base)
        a1   == 100 * x.a + (b1 \div Base)
        int  == a1 \div Base
        fa   == a1 % Base
        fb   == b1 % Base
        fc   == c1 % Base
        half == Base \div 2
        tie  == fa = half /\ fb = 0 /\ fc = 0
        h    == IF fa < half THEN int
                ELSE IF ~tie THEN int + 1
                ELSE IF int % 2 = 0 THEN int ELSE int + 1
    IN  IF x.neg THEN 0 - h ELSE h

----------------------------------------------------------------------------
(* Sequence helpers *)

RECURSIVE InsertByKey(_, _)
\* insert the pair p = <<key, element>> behind every pair whose key is not
\* greater than its own
InsertByKey(s, p) ==
    IF s = <<>> THEN <<p>>
    ELSE IF p[1] < Head(s)[1] THEN <<p>> \o s
    ELSE <<Head(s)>> \o InsertByKey(Tail(s), p)

RECURSIVE SortPairs(_)
SortPairs(s) ==
    IF s = <<>> THEN <<>>
    ELSE InsertByKey(SortPairs(SubSeq(s, 1, Len(s) - 1)), s[Len(s)])

\* list.sort(key=...): the stable sort of s by ascending key[k] of s[k];
\* sort(reverse=True) keeps equal elements in their original order too and
\* is the stable sort by the negated key
SortByKey(s, key) ==
    LET sorted == SortPairs([k \in 1..Len(s) |-> <<key[k], s[k]>>])
    IN  [k \in 1..Len(s) |-> sorted[k][2]]

RECURSIVE SumAdditions(_)
SumAdditions(s) ==
    IF s = <<>> THEN 0 ELSE Head(s).additions + SumAdditions(Tail(s))

SeqsUpTo(S, n) == UNION {[1..k -> S] : k \in 0..n}

----------------------------------------------------------------------------
(* Inputs: the window the analyzer was constructed with and the responses  *)
(* of the remote API.                                                      *)

\* the declared window, as instants on an integer time scale
hackathon_start == 2
hackathon_end == 3

\* a token is configured, so the analyzer starts with a budget of 5000
GITHUB_TOKEN == TRUE

\* the rate limit headers of a response: the API sends them with every
\* response, with no request left (0) or with requests left, and with the
\* seconds from now to the reset of the limit (wait_time).  A response with
\* requests left is sent before the reset; one with none left may also
\* arrive when the reset has just passed.
RemVals == {0, 5000}
WaitVals == {0, 60}
Headers ==
    {h \in [present : {TRUE}, remaining : RemVals, wait : WaitVals] :
        h.remaining > 0 => h.wait > 0}

ListStatuses == {200, 404, 500}
StatsStatuses == {200, 202, 404}
DetailStatuses == {200, 404}

\* a commit of the list response is its author date: an instant before
\* the window, the start, the end, or an instant after the window; its sha
\* is its position in the list the API returned
Dates == (hackathon_start - 1)..(hackathon_end + 1)
CommitLists == SeqsUpTo(Dates, MaxCommits)

\* params={"per_page": 100}: the most commits one list response carries,
\* scaled to the bound of the model
per_page == MaxCommits

\* the list response of a repository whose history holds n commits: its
\* first page
FirstPage(n) ==
    {body \in CommitLists : Len(body) = (IF n < per_page THEN n ELSE per_page)}

\* stats.additions of a detail response
AddVals == {5000, 6000}

\* an entry of the /stats/contributors body: the author's login and the
\* sum of the additions of its weeks.  The API lists every contributor
\* once, so the k-th entry carries the k-th login.
Login(k) == ToString(k)
ContribAdds == {0, 5, 95}
StatsBodies ==
    UNION {{[k \in 1..n |-> [author |-> Login(k), a |-> f[k]]] :
                f \in [1..n -> ContribAdds]} : n \in 0..MaxContrib}

----------------------------------------------------------------------------
(* HackathonAnalyzer._check_rate_limit: the new requests_remaining and the *)
(* value returned (the sleep until the reset changes no state)             *)

\* the seconds _check_rate_limit sleeps on a response with these headers
rate_limit_sleep(hdr) ==
    IF hdr.present /\ hdr.remaining < 1 /\ hdr.wait > 0
    THEN (IF hdr.wait + 1 < 3600 THEN hdr.wait + 1 ELSE 3600)
    ELSE 0

_check_rate_limit(remaining, hdr) ==
    IF hdr.present
    THEN [remaining |-> hdr.remaining, ok |-> ~(hdr.remaining < 1)]
    ELSE [remaining |-> remaining, ok |-> TRUE]

----------------------------------------------------------------------------
(* HackathonAnalyzer.get_contributor_stats *)

max_retries == 3

RECURSIVE DictPut(_, _)
\* contributor_data[username] = {...}: a dict keeps the position of a key
\* it already holds and replaces its value
DictPut(d, e) ==
    IF d = <<>> THEN <<e>>
    ELSE IF Head(d).user = e.user THEN <<e>> \o Tail(d)
    ELSE <<Head(d)>> \o DictPut(Tail(d), e)

RECURSIVE ParseStats(_)
ParseStats(body) ==
    IF body = <<>> THEN <<>>
    ELSE LET stat == body[Len(body)]
             username == IF stat.author # "" THEN stat.author ELSE "Unknown"
         IN  DictPut(ParseStats(SubSeq(body, 1, Len(body) - 1)),
                     [user |-> username, additions |-> stat.a])

----------------------------------------------------------------------------
(* HackathonAnalyzer.analyze_repository, after the fetch loop: contributor *)
(* percentages, timeline, partition, rules, verdict and report.  A commit  *)
(* is [sha, date, additions, index]; the fields no rule reads (message,    *)
(* files, deletions) are left out.                                         *)

\* round(n / d, 0) with ties to even, for n >= 0 and d > 0
RoundDiv(n, d) ==
    LET q == n \div d
        r == n % d
    IN  IF 2 * r < d THEN q
        ELSE IF 2 * r > d THEN q + 1
        ELSE IF q % 2 = 0 THEN q ELSE q + 1

\* the percentage cut to two decimals instead of rounded
percent_contributed_truncated(additions, total_additions) ==
    IF total_additions > 0 THEN (additions * 10000) \div total_additions
    ELSE 0

\* round(additions / total_additions * 100, 2), in hundredths of a percent
percent_contributed(additions, total_additions) ==
    IF total_additions > 0 THEN RoundDiv(additions * 10000, total_additions)
    ELSE 0

\* contribution_percentages, sorted by percentage with reverse=True
contribution_percentages(stats) ==
    LET total_additions == SumAdditions(stats)
        unsorted == [k \in 1..Len(stats) |->
                        [user |-> stats[k].user,
                         percentage |-> percent_contributed(stats[k].additions,
                                                            total_additions)]]
    IN  SortByKey(unsorted, [k \in 1..Len(stats) |-> 0 - unsorted[k].percentage])

\* timeline_data, sorted by date
timeline_data(ca) ==
    SortByKey([k \in 1..Len(ca) |->
                  [date |-> ca[k].date, additions |-> ca[k].additions]],
              [k \in 1..Len(ca) |-> ca[k].date])

\* the start of the window taken as before the window
commits_before_inclusive(ca) ==
    LET Test(c) == c.date <= hackathon_start
    IN  SelectSeq(ca, Test)

commits_before_hackathon(ca) ==
    LET Test(c) == c.date < hackathon_start
    IN  SelectSeq(ca, Test)

commits_after_hackathon(ca) ==
    LET Test(c) == ~(c.date < hackathon_start) /\ c.date > hackathon_end
    IN  SelectSeq(ca, Test)

\* the window taken with exclusive boundaries
commits_during_exclusive(ca) ==
    LET Test(c) == c.date > hackathon_start /\ c.date < hackathon_end
    IN  SelectSeq(ca, Test)

commits_during_hackathon(ca) ==
    LET Test(c) == ~(c.date < hackathon_start) /\ ~(c.date > hackathon_end)
    IN  SelectSeq(ca, Test)

\* first_commit = commits_during_hackathon[-1] and its additions > 5000
massive_initial(during) ==
    during # <<>> /\ during[Len(during)].additions > 5000

\* top_contributor["percentage"] > 90
contributor_imbalance(cp) ==
    (IF cp # <<>> THEN cp[1].percentage ELSE 0) > 9000

\* the pre-window rule charged the post-window penalty
trust_score_before_03(before, after, massive, imbalance) ==
    LET s1 == IF before THEN FSub(F_1_0, F_0_3) ELSE F_1_0
        s2 == IF after THEN FSub(s1, F_0_3) ELSE s1
        s3 == IF massive THEN FSub(s2, F_0_4) ELSE s2
    IN  IF imbalance THEN FSub(s3, F_0_3) ELSE s3

\* the unrounded trust_score after the four rules
trust_score(before, after, massive, imbalance) ==
    LET s1 == IF before THEN FSub(F_1_0, F_0_5) ELSE F_1_0
        s2 == IF after THEN FSub(s1, F_0_3) ELSE s1
        s3 == IF massive THEN FSub(s2, F_0_4) ELSE s2
    IN  IF imbalance THEN FSub(s3, F_0_3) ELSE s3

Anomaly(rule, n, sha, user) ==
    [rule |-> rule, n |-> n, sha |-> sha, user |-> user]

\* the post-window rule evaluated ahead of the pre-window rule
anomalies_after_first(before, after, during, cp) ==
    (IF after # <<>>
     THEN <<Anomaly("after", Len(after), after[Len(after)].sha, "")>>
     ELSE <<>>)
    \o (IF before # <<>>
        THEN <<Anomaly("before", Len(before), before[1].sha, "")>> ELSE <<>>)
    \o (IF massive_initial(during)
        THEN <<Anomaly("massive", during[Len(during)].additions,
                       during[Len(during)].sha, "")>>
        ELSE <<>>)
    \o (IF contributor_imbalance(cp)
        THEN <<Anomaly("imbalance", cp[1].percentage, 0, cp[1].user)>>
        ELSE <<>>)

\* the anomalies list after the four rules
anomalies(before, after, during, cp) ==
    (IF before # <<>>
     THEN <<Anomaly("before", Len(before), before[1].sha, "")>> ELSE <<>>)
    \o (IF after # <<>>
        THEN <<Anomaly("after", Len(after), after[Len(after)].sha, "")>>
        ELSE <<>>)
    \o (IF massive_initial(during)
        THEN <<Anomaly("massive", during[Len(during)].additions,
                       during[Len(during)].sha, "")>>
        ELSE <<>>)
    \o (IF contributor_imbalance(cp)
        THEN <<Anomaly("imbalance", cp[1].percentage, 0, cp[1].user)>>
        ELSE <<>>)

\* the thresholds taken inclusively
risk_level_inclusive(score) ==
    IF ~FLess(F_0_4, score) THEN "High"
    ELSE IF ~FLess(F_0_7, score) THEN "Medium"
    ELSE "Low"

risk_level(score) ==
    IF FLess(score, F_0_4) THEN "High"
    ELSE IF FLess(score, F_0_7) THEN "Medium"
    ELSE "Low"

Verdict(kind, n, list, sha, additions) ==
    [kind |-> kind, commits |-> n, anomalies |-> list, sha |-> sha,
     additions |-> additions]

\* the verdict sentence: lower-cased anomalies behind "significant red
\* flags", the anomalies behind "some concerns", or the organic sentence
verdict(risk, n, list) ==
    IF risk = "High" THEN Verdict("red_flags", n, list, 0, 0)
    ELSE IF risk = "Medium" THEN Verdict("concerns", n, list, 0, 0)
    ELSE Verdict("organic", n, <<>>, 0, 0)

\* the final block with a threshold of 50000
massive_code_dump_50000(ca) ==
    Len(ca) > 0 /\ ca[Len(ca)].additions > 50000

\* the final block: the last analysed commit has more than 5000 additions
massive_code_dump(ca) ==
    Len(ca) > 0 /\ ca[Len(ca)].additions > 5000

NoReport ==
    [status |-> "none", error |-> "", trust_score |-> 0, risk_level |-> "",
     verdict_summary |-> Verdict("", 0, <<>>, 0, 0), key_anomalies |-> <<>>,
     line_changes_map |-> <<>>, contributor_map |-> <<>>,
     total_commits |-> 0, total_contributors |-> 0,
     before_hackathon |-> 0, during_hackathon |-> 0, after_hackathon |-> 0,
     first_commit |-> 0, last_commit |-> 0]

ErrorReport(msg) == [NoReport EXCEPT !.status = "error", !.error = msg]

\* analysis_result as returned; first_commit / last_commit are 0 for None
analysis_result(ca, stats) ==
    LET cp     == contribution_percentages(stats)
        before == commits_before_hackathon(ca)
        after  == commits_after_hackathon(ca)
        during == commits_during_hackathon(ca)
        score  == trust_score(before # <<>>, after # <<>>,
                              massive_initial(during),
                              contributor_imbalance(cp))
        list   == anomalies(before, after, during, cp)
        risk   == risk_level(score)
        dump   == massive_code_dump(ca)
        last   == ca[Len(ca)]
    IN  [status |-> "ok", error |-> "",
         trust_score |-> IF dump THEN 30 ELSE Round2(score),
         risk_level |-> IF dump THEN "High" ELSE risk,
         verdict_summary |->
             IF dump THEN Verdict("dump", 0, <<>>, last.sha, last.additions)
             ELSE verdict(risk, Len(ca), list),
         key_anomalies |->
             IF dump THEN Append(list, Anomaly("detected", 0, 0, ""))
             ELSE list,
         line_changes_map |-> timeline_data(ca),
         contributor_map |-> cp,
         total_commits |-> Len(ca),
         total_contributors |-> Len(cp),
         before_hackathon |-> Len(before),
         during_hackathon |-> Len(during),
         after_hackathon |-> Len(after),
         first_commit |-> IF before # <<>> THEN before[1].date
                          ELSE IF during # <<>> THEN during[1].date ELSE 0,
         last_commit |-> IF after # <<>> THEN after[Len(after)].date
                         ELSE IF during # <<>> THEN during[Len(during)].date
                         ELSE 0]

----------------------------------------------------------------------------
(* HackathonAnalyzer.__init__: the window arguments are texts.  A text is   *)
(* well formed (an ISO-8601 date and time) or not; a well formed one names *)
(* an instant and ends with 'Z', with an offset +hh:mm, with an offset     *)
(* -hh:mm or with no zone; extra is what __init__ appended to it.          *)

TzKinds == {"Z", "plus", "minus", "naive"}

MalformedText == [wellformed |-> FALSE, tz |-> "naive", instant |-> 0, extra |-> ""]

DateTexts(instants) ==
    {MalformedText} \cup
    {[wellformed |-> TRUE, tz |-> z, instant |-> t, extra |-> ""] :
        z \in TzKinds, t \in instants}

\* the texts given as hackathon_start and as hackathon_end
StartTexts == DateTexts({hackathon_start, hackathon_end + 1})
EndTexts == DateTexts({hackathon_end, hackathon_start - 1})

\* if 'Z' not in text and '+' not in text: text += 'Z'
add_utc(text) ==
    IF text.wellformed /\ text.tz \in {"minus", "naive"}
    THEN [text EXCEPT !.extra = "Z"]
    ELSE text

\* text.replace('Z', '+00:00')
replace_Z(text) ==
    [text EXCEPT !.tz = IF @ = "Z" THEN "plus" ELSE @,
                 !.extra = IF @ = "Z" THEN "+00:00" ELSE @]

\* datetime.fromisoformat: a ValueError for a text that is not well formed
\* or that carries two offsets, else the instant
fromisoformat(text) ==
    IF ~text.wellformed \/ (text.tz \in {"plus", "minus"} /\ text.extra # "")
    THEN [ok |-> FALSE, instant |-> 0]
    ELSE [ok |-> TRUE, instant |-> text.instant]

\* __init__ without the test of the order of the two dates
window_error_unordered(start_text, end_text) ==
    LET start == fromisoformat(replace_Z(add_utc(start_text)))
        end   == fromisoformat(replace_Z(add_utc(end_text)))
    IN  IF ~start.ok \/ ~end.ok THEN "Invalid date format"
        ELSE ""

\* the message of the ValueError __init__ raises, "" when it raises none
window_error(start_text, end_text) ==
    LET start == fromisoformat(replace_Z(add_utc(start_text)))
        end   == fromisoformat(replace_Z(add_utc(end_text)))
    IN  IF ~start.ok \/ ~end.ok THEN "Invalid date format"
        ELSE IF end.instant < start.instant
        THEN "Hackathon end date cannot be before start date"
        ELSE ""

----------------------------------------------------------------------------
(* The agents: no POST request was made to ReceiverAgent and no            *)
(* ChatMessage was delivered to an atomspace agent.                        *)

\* ctx.storage holds None under 'last_response': <<>> is None, <<m>> the
\* stored message m
NoRelay ==
    /\ last_response = <<>>
    /\ posts = <<>>
    /\ to_agent2 = {}
    /\ to_receiver = {}

NoChatMessage == [form |-> "", action |-> "", required |-> 0]

NoMetrics == [integration_score |-> 0, required_apis |-> 0, verified_apis |-> 0]

NoChat ==
    /\ agent = ""
    /\ chat_pc = "none"
    /\ chat_msg = NoChatMessage
    /\ metrics = NoMetrics
    /\ l = <<>>
    /\ response_text = <<>>
    /\ exception = ""
    /\ sent = <<>>
    /\ received = 0

NoAgentMessage == NoRelay /\ NoChat

----------------------------------------------------------------------------
(* The run of analyze_repository *)

\* the result of a request to /analyze: an error, or an analysis with its
\* authenticity_summary and graph_data
NoMetadata == [commits_before |-> 0, commits_all |-> 0, commits_after |-> 0]

NoResult ==
    [kind |-> "none", error |-> "", trust_score |-> 0, risk_level |-> "",
     verdict_summary |-> "", key_anomalies |-> <<>>,
     line_changes_map |-> <<>>, contributor_map |-> <<>>,
     metadata |-> NoMetadata]

\* no request to /analyze was made
NoAnalyzeRequest ==
    /\ ga_pc = "none"
    /\ remote = <<>>
    /\ response_status = 0
    /\ page = 0
    /\ commits_page = <<>>
    /\ page_i = 0
    /\ all_commits = <<>>
    /\ contributors = <<>>
    /\ metadata = NoMetadata
    /\ content = ""
    /\ result = NoResult

\* the state of an analyzer that was constructed and has sent no request
Constructed ==
    /\ requests_remaining = IF GITHUB_TOKEN THEN 5000 ELSE 60
    /\ commits_hdr = [present |-> FALSE, remaining |-> 0, wait |-> 0]
    /\ commits_status = 0                                 \* no response yet
    /\ commits = <<>>
    /\ attempt = 0
    /\ stats_status = 0
    /\ contributor_stats = <<>>
    /\ i = 0
    /\ detail_status = 0
    /\ commit_analyses = <<>>
    /\ report = NoReport
    /\ request_sent = FALSE
    /\ remote_len = 0

Init ==
    /\ pc = "start"
    /\ args = <<>>
    /\ raised = ""
    /\ Constructed
    /\ NoAnalyzeRequest
    /\ NoAgentMessage

\* before HackathonAnalyzer(...) is called
InitNew ==
    /\ pc = "new"
    /\ args = <<>>
    /\ raised = ""
    /\ Constructed
    /\ NoAnalyzeRequest
    /\ NoAgentMessage

\* the call HackathonAnalyzer(hackathon_start=..., hackathon_end=...)
Call ==
    /\ pc = "new"
    /\ pc' = "init"
    /\ \E start_text \in StartTexts, end_text \in EndTexts :
          args' = <<start_text, end_text>>
    /\ UNCHANGED <<requests_remaining, commits_hdr, commits, attempt,
                   contributor_stats, i, commit_analyses, report,
                   commits_status, stats_status, detail_status, request_sent,
                   remote_len, raised, ga_vars, agent_vars>>

\* the body of __init__: it raises, or the analyzer holds the window the
\* two texts name, which is hackathon_start..hackathon_end for every pair
\* of texts given here that it accepts
Construct ==
    /\ pc = "init"
    /\ LET error == window_error(args[1], args[2])
       IN  IF error # ""
           THEN pc' = "raised" /\ raised' = error /\ args' = args
           ELSE pc' = "start" /\ raised' = raised /\ args' = <<>>
    /\ UNCHANGED <<requests_remaining, commits_hdr, commits, attempt,
                   contributor_stats, i, commit_analyses, report,
                   commits_status, stats_status, detail_status, request_sent,
                   remote_len, ga_vars, agent_vars>>

\* the response to the commit list request, sent to a repository whose
\* history holds one of sizes commits
FetchList(sizes) ==
    /\ pc = "start"
    /\ request_sent' = TRUE
    /\ \E status \in ListStatuses, hdr \in Headers :
         LET rl == _check_rate_limit(requests_remaining, hdr)
         IN  /\ requests_remaining' = rl.remaining
             /\ commits_hdr' = hdr
             /\ commits_status' = status
             /\ IF ~rl.ok
                THEN /\ pc' = "done"
                     /\ report' = ErrorReport("Rate limit exceeded. Try again later.")
                     /\ UNCHANGED <<commits, remote_len>>
                ELSE IF status # 200
                THEN /\ pc' = "done"
                     /\ report' = ErrorReport("Failed to fetch commits. Status: "
                                                \o ToString(status))
                     /\ UNCHANGED <<commits, remote_len>>
                ELSE /\ pc' = "stats"
                     /\ report' = report
                     /\ \E n \in sizes : /\ remote_len' = n
                                         /\ \E body \in FirstPage(n) : commits' = body
    /\ UNCHANGED <<attempt, stats_status, contributor_stats, i, detail_status,
                   commit_analyses, args, raised, ga_vars, agent_vars>>

\* the repository's history fits one list response
FetchCommits == FetchList(0..per_page)

\* get_contributor_stats returns an error instead of the stats it has none of
StatsReturn_empty_fails(stats) ==
    /\ contributor_stats' = stats
    /\ IF stats = <<>>
       THEN /\ pc' = "done"
            /\ report' = ErrorReport("No contributor stats")
       ELSE IF commits = <<>>
       THEN /\ pc' = "done"
            /\ report' = analysis_result(commit_analyses, stats)
       ELSE /\ pc' = "loop"
            /\ report' = report

\* get_contributor_stats returns stats: the loop over the commits starts,
\* or, when the list is empty, the report is assembled
StatsReturn(stats) ==
    /\ contributor_stats' = stats
    /\ IF commits = <<>>
       THEN /\ pc' = "done"
            /\ report' = analysis_result(commit_analyses, stats)
       ELSE /\ pc' = "loop"
            /\ report' = report

\* one response to the /stats/contributors request; attempt is the number
\* of requests answered 202 so far and is gone when the function returns
StatsResponse ==
    /\ pc = "stats"
    /\ \E status \in StatsStatuses :
         /\ stats_status' = status
         /\ IF status = 200
            THEN /\ \E body \in StatsBodies : StatsReturn(ParseStats(body))
                 /\ attempt' = 0
            ELSE IF status = 202
            THEN IF attempt + 1 < max_retries
                 THEN /\ attempt' = attempt + 1
                      /\ UNCHANGED <<pc, report, contributor_stats>>
                 ELSE StatsReturn(<<>>) /\ attempt' = 0
            ELSE StatsReturn(<<>>) /\ attempt' = 0
    /\ UNCHANGED <<requests_remaining, commits_hdr, commits_status, commits, i,
                   detail_status, commit_analyses, request_sent, remote_len,
                   args, raised, ga_vars, agent_vars>>

\* the end of one iteration of the loop, with commit_analyses now ca: the
\* iteration of the last commit assembles the report
EndIteration(ca) ==
    /\ commit_analyses' = ca
    /\ i' = i + 1
    /\ IF i + 1 = Len(commits)
       THEN /\ pc' = "done"
            /\ report' = analysis_result(ca, contributor_stats)
       ELSE UNCHANGED <<pc, report>>

\* the iteration reads the detail response whatever its status
detail_usable_any_status(rl_ok, status) == rl_ok

\* the two tests that let an iteration go on to read the detail response:
\* neither `continue` is taken
detail_usable(rl_ok, status) == rl_ok /\ status = 200

\* one iteration of the loop over the commits: the response to the detail
\* request of commits[i]
DetailResponse ==
    /\ pc = "loop"
    /\ \E status \in DetailStatuses, hdr \in Headers :
         LET low == IF requests_remaining < 10
                    THEN _check_rate_limit(requests_remaining,
                                           commits_hdr).remaining
                    ELSE requests_remaining
             rl  == _check_rate_limit(low, hdr)
         IN  /\ requests_remaining' = rl.remaining
             /\ detail_status' = status
             /\ IF detail_usable(rl.ok, status)
                THEN \E additions \in AddVals :
                        EndIteration(Append(commit_analyses,
                            [sha |-> i + 1, date |-> commits[i + 1],
                             additions |-> additions, index |-> i]))
                ELSE EndIteration(commit_analyses)
    /\ UNCHANGED <<commits_hdr, commits_status, commits, attempt, stats_status,
                   contributor_stats, request_sent, remote_len, args, raised,
                   ga_vars, agent_vars>>

Next == FetchCommits \/ StatsResponse \/ DetailResponse

Spec == Init /\ [][Next]_vars

\* the run from the call of the constructor on
NextCtor == Call \/ Construct \/ Next

SpecCtor == InitNew /\ [][NextCtor]_vars

\* a repository whose history may hold one commit more than a list
\* response carries
FetchCommitsLarge == FetchList(0..(per_page + 1))

NextLarge == FetchCommitsLarge \/ StatsResponse \/ DetailResponse

SpecLarge == Init /\ [][NextLarge]_vars

Returned == pc = "done" /\ report.status = "ok"

----------------------------------------------------------------------------
(* The contributor percentages on their own: analyze_repository's          *)
(* computation of contribution_percentages applied to contributor stats    *)
(* of up to MaxPctContrib contributors.                                    *)

PctAdds == {0, 1, 7}

PctStats ==
    UNION {{[k \in 1..n |-> [user |-> Login(k), additions |-> f[k]]] :
                f \in [1..n -> PctAdds]} : n \in 0..MaxPctContrib}

InitPct ==
    /\ pc = "percentages"
    /\ contributor_stats \in PctStats
    /\ requests_remaining = IF GITHUB_TOKEN THEN 5000 ELSE 60
    /\ commits_hdr = [present |-> FALSE, remaining |-> 0, wait |-> 0]
    /\ commits_status = 0
    /\ commits = <<>>
    /\ attempt = 0
    /\ stats_status = 0
    /\ i = 0
    /\ detail_status = 0
    /\ commit_analyses = <<>>
    /\ report = NoReport
    /\ request_sent = FALSE
    /\ remote_len = 0
    /\ args = <<>>
    /\ raised = ""
    /\ NoAnalyzeRequest
    /\ NoAgentMessage

\* contribution_percentages is computed and put in the report
ContributionPercentages ==
    /\ pc = "percentages"
    /\ pc' = "percentages_done"
    /\ report' = [report EXCEPT
                     !.contributor_map = contribution_percentages(contributor_stats),
                     !.total_contributors = Len(contributor_stats)]
    /\ UNCHANGED <<requests_remaining, commits_hdr, commits, attempt,
                   contributor_stats, i, commit_analyses, commits_status,
                   stats_status, detail_status, request_sent, remote_len, args,
                   raised, ga_vars, agent_vars>>

NextPct == ContributionPercentages

SpecPct == InitPct /\ [][NextPct]_vars

----------------------------------------------------------------------------
(* The scoring on its own: the part of analyze_repository behind the fetch *)
(* loop, applied to analysed commits and to contributor stats in which one *)
(* contributor may hold a share of the additions just above 90%.           *)

ShareAdds == {0, 9996, 90004}

ShareStats ==
    UNION {{[k \in 1..n |-> [user |-> Login(k), additions |-> f[k]]] :
                f \in [1..n -> ShareAdds]} : n \in 0..MaxContrib}

\* commit_analyses after a loop in which every detail request succeeded
AnalysedLists ==
    UNION {{[k \in 1..n |-> [sha |-> k, date |-> d[k], additions |-> a[k],
                             index |-> k - 1]] :
                d \in [1..n -> Dates], a \in [1..n -> AddVals]} :
           n \in 0..MaxCommits}

InitScore ==
    /\ pc = "scoring"
    /\ contributor_stats \in ShareStats
    /\ commit_analyses \in AnalysedLists
    /\ requests_remaining = IF GITHUB_TOKEN THEN 5000 ELSE 60
    /\ commits_hdr = [present |-> FALSE, remaining |-> 0, wait |-> 0]
    /\ commits_status = 0
    /\ commits = <<>>
    /\ attempt = 0
    /\ stats_status = 0
    /\ i = 0
    /\ detail_status = 0
    /\ report = NoReport
    /\ request_sent = FALSE
    /\ remote_len = 0
    /\ args = <<>>
    /\ raised = ""
    /\ NoAnalyzeRequest
    /\ NoAgentMessage

\* the report is assembled from commit_analyses and contributor_stats
Score ==
    /\ pc = "scoring"
    /\ pc' = "scored"
    /\ report' = analysis_result(commit_analyses, contributor_stats)
    /\ UNCHANGED <<requests_remaining, commits_hdr, commits, attempt,
                   contributor_stats, i, commit_analyses, commits_status,
                   stats_status, detail_status, request_sent, remote_len, args,
                   raised, ga_vars, agent_vars>>

NextScore == Score

SpecScore == InitScore /\ [][NextScore]_vars

----------------------------------------------------------------------------
(* src/github_agent: one request to POST /analyze.  api.analyze_repo       *)
(* constructs a HackathonAnalyzer, whose __init__ calls                    *)
(* utils.validate_dates, and returns its analyze_repository:               *)
(* get_commit_history, get_contributor_stats, the three commit counts and  *)
(* call_llm_for_analysis.  Every step is one response of a remote service. *)
(* utils.check_rate_limit only sleeps and changes no state.                *)

\* the repository behind the url: its commits, each with author date,
\* author name and stats.additions; the sha of a commit is its position
Authors == {Login(1), Login(2)}
RemoteCommits == [date : Dates, author : Authors, additions : AddVals]
RemoteRepos == SeqsUpTo(RemoteCommits, MaxCommits)

\* 'per_page': 20 of get_commit_history, a smaller page than the 100 of
\* the counts, so that a history takes more than one page
history_per_page == per_page - 1

\* 'per_page': 20 of get_contributor_stats: the last commits of the
\* repository, here all of them
contributor_per_page == per_page

GaListStatuses == {200, 403, 404}
CountStatuses == {200, 403}
LlmStatuses == {200, 500}

\* the commits the API lists for since..until, as positions of remote
ListCommits(since, until) ==
    LET Test(k) == since <= remote[k].date /\ remote[k].date <= until
    IN  SelectSeq([k \in 1..Len(remote) |-> k], Test)

\* a page of a list
PageOf(list, p, size) ==
    SubSeq(list, (p - 1) * size + 1,
           IF p * size < Len(list) THEN p * size ELSE Len(list))

\* the message of the ValueError validate_dates raises, "" when it raises
\* none: the ValueError of the order test is raised inside the try and
\* wrapped like a parse error
validate_dates(start_text, end_text) ==
    LET start == fromisoformat(replace_Z(add_utc(start_text)))
        end   == fromisoformat(replace_Z(add_utc(end_text)))
    IN  IF ~start.ok \/ ~end.ok THEN "Invalid date format"
        ELSE IF end.instant < start.instant
        THEN "Invalid date format. Error: Hackathon end date cannot be before start date"
        ELSE ""

InitApi ==
    /\ pc = "none"
    /\ args = <<>>
    /\ raised = ""
    /\ Constructed
    /\ ga_pc = "request"
    /\ remote \in RemoteRepos
    /\ response_status = 0
    /\ page = 0
    /\ commits_page = <<>>
    /\ page_i = 0
    /\ all_commits = <<>>
    /\ contributors = <<>>
    /\ metadata = NoMetadata
    /\ content = ""
    /\ result = NoResult
    /\ NoAgentMessage

\* api.analyze_repo up to the call of analyze_repository: the constructor
\* runs outside any try, so its ValueError leaves analyze_repo
AnalyzeRepo ==
    /\ ga_pc = "request"
    /\ \E start_text \in StartTexts, end_text \in EndTexts :
         LET error == validate_dates(start_text, end_text)
         IN  IF error # ""
             THEN /\ ga_pc' = "exception"
                  /\ raised' = error
                  /\ args' = <<start_text, end_text>>
                  /\ page' = page
             ELSE /\ ga_pc' = "history"
                  /\ raised' = raised
                  /\ args' = <<>>
                  /\ page' = 1
    /\ UNCHANGED <<agent_vars, core_vars, remote, response_status, commits_page, page_i,
                   all_commits, contributors, metadata, content, result>>

\* analyze_repository's except Exception as e: return {"error": str(e)}
ReturnError(msg) ==
    /\ ga_pc' = "returned"
    /\ result' = [NoResult EXCEPT !.kind = "error", !.error = msg]

\* get_commit_history: the response to the request of one page
HistoryPage ==
    /\ ga_pc = "history"
    /\ \E status \in GaListStatuses :
         /\ response_status' = status
         /\ IF status = 404
            THEN ReturnError("Repository not found")
                 /\ UNCHANGED <<commits_page, page_i>>
            ELSE IF status # 200
            THEN ReturnError("GitHub API error: " \o ToString(status))
                 /\ UNCHANGED <<commits_page, page_i>>
            ELSE LET commits_of_page ==
                        PageOf(ListCommits(hackathon_start, hackathon_end),
                               page, history_per_page)
                 IN  /\ commits_page' = commits_of_page
                     /\ page_i' = 0
                     /\ result' = result
                     /\ ga_pc' = IF commits_of_page = <<>> THEN "contributors"
                                 ELSE "history_detail"
    /\ UNCHANGED <<agent_vars, core_vars, args, raised, remote, page, all_commits,
                   contributors, metadata, content>>

commit_info(k) ==
    [sha |-> k, author |-> remote[k].author, date |-> remote[k].date,
     additions |-> remote[k].additions]

\* get_commit_history: the response to the detail request of one commit of
\* the page; after the last one the next page is requested
HistoryDetail ==
    /\ ga_pc = "history_detail"
    /\ \E status \in DetailStatuses :
         all_commits' = IF status = 200
                        THEN Append(all_commits, commit_info(commits_page[page_i + 1]))
                        ELSE all_commits
    /\ page_i' = page_i + 1
    /\ IF page_i + 1 = Len(commits_page)
       THEN page' = page + 1 /\ ga_pc' = "history"
       ELSE UNCHANGED <<page, ga_pc>>
    /\ UNCHANGED <<agent_vars, core_vars, args, raised, remote, response_status,
                   commits_page, contributors, metadata, content, result>>

\* get_contributor_stats, after its loop: the percentages, then the list
\* sorted by additions with reverse=True
contributor_list(d) ==
    LET total_additions == SumAdditions(d)
        with_percentage == [k \in 1..Len(d) |->
            [d[k] EXCEPT !.percentage =
                IF total_additions > 0
                THEN RoundDiv(d[k].additions * 10000, total_additions)
                ELSE @]]
    IN  SortByKey(with_percentage, [k \in 1..Len(d) |-> 0 - d[k].additions])

\* get_contributor_stats: the response to the request of the last commits
ContributorList ==
    /\ ga_pc = "contributors"
    /\ contributors' = <<>>
    /\ page_i' = 0
    /\ \E status \in DetailStatuses :
         LET commits_of_page ==
                IF status = 200
                THEN PageOf(ListCommits(hackathon_start - 1, hackathon_end + 1),
                            1, contributor_per_page)
                ELSE <<>>
         IN  /\ commits_page' = commits_of_page
             /\ IF commits_of_page = <<>>
                THEN ga_pc' = "commits_before" /\ page' = 1
                ELSE ga_pc' = "contributor_detail" /\ page' = page
    /\ UNCHANGED <<agent_vars, core_vars, args, raised, remote, response_status,
                   all_commits, metadata, content, result>>

\* get_contributor_stats: the response to the detail request of one commit
ContributorDetail ==
    /\ ga_pc = "contributor_detail"
    /\ page_i' = page_i + 1
    /\ \E status \in DetailStatuses :
         LET commit == remote[commits_page[page_i + 1]]
             known  == \E k \in 1..Len(contributors) :
                          contributors[k].user = commit.author
             added  == IF known THEN contributors
                       ELSE Append(contributors,
                                [user |-> commit.author, commits |-> 0,
                                 additions |-> 0, percentage |-> 0])
             counted == IF status = 200
                        THEN [k \in 1..Len(added) |->
                                IF added[k].user = commit.author
                                THEN [added[k] EXCEPT
                                        !.commits = @ + 1,
                                        !.additions = @ + commit.additions]
                                ELSE added[k]]
                        ELSE added
         IN  IF page_i + 1 = Len(commits_page)
             THEN /\ contributors' = contributor_list(counted)
                  /\ ga_pc' = "commits_before"
                  /\ page' = 1
             ELSE /\ contributors' = counted
                  /\ UNCHANGED <<ga_pc, page>>
    /\ UNCHANGED <<agent_vars, core_vars, args, raised, remote, response_status,
                   commits_page, all_commits, metadata, content, result>>

\* one response of a counting loop over the pages of list: a non-200
\* status raises, an empty page ends the loop with the count in metadata
CountPage(list, count, then) ==
    /\ \E status \in CountStatuses :
         /\ response_status' = status
         /\ IF status # 200
            THEN ReturnError("GitHub API error: " \o ToString(status))
                 /\ UNCHANGED <<page, metadata>>
            ELSE LET commits_of_page == PageOf(list, page, per_page)
                 IN  /\ result' = result
                     /\ IF commits_of_page = <<>>
                        THEN ga_pc' = then /\ page' = 1 /\ metadata' = metadata
                        ELSE /\ ga_pc' = ga_pc
                             /\ page' = page + 1
                             /\ metadata' = [metadata EXCEPT
                                    ![count] = @ + Len(commits_of_page)]
    /\ UNCHANGED <<agent_vars, core_vars, args, raised, remote, commits_page, page_i,
                   all_commits, contributors, content>>

\* get_commits_before_date(hackathon_start)
CommitsBefore ==
    /\ ga_pc = "commits_before"
    /\ CountPage(ListCommits(hackathon_start - 1, hackathon_start),
                 "commits_before", "commits_all")

\* get_total_commit_count
CommitsAll ==
    /\ ga_pc = "commits_all"
    /\ CountPage(ListCommits(hackathon_start - 1, hackathon_end + 1),
                 "commits_all", "commits_after")

\* get_commits_after_date(hackathon_end)
CommitsAfter ==
    /\ ga_pc = "commits_after"
    /\ CountPage(ListCommits(hackathon_end, hackathon_end + 1),
                 "commits_after", "llm")

\* what the LLM service answers with status 200: no message, a null
\* content, the expected JSON, other JSON, a fenced ```json block holding
\* the expected JSON, a fenced block holding something else, or plain text
LlmContents ==
    {"no_message", "null", "json", "json_other", "fenced_json",
     "fenced_other", "text"}

\* the authenticity_summary an LLM puts in the expected JSON
LlmSummaries ==
    {[trust_score |-> 95, risk_level |-> "Low"],
     [trust_score |-> 20, risk_level |-> "High"]}

\* graph_data.line_changes_map of project_data
ga_line_changes_map ==
    [k \in 1..Len(all_commits) |->
        [date |-> all_commits[k].date, additions |-> all_commits[k].additions]]

\* the analysis parsed from the content of the LLM
LlmAnalysis(summary) ==
    [NoResult EXCEPT !.kind = "analysis",
                     !.trust_score = summary.trust_score,
                     !.risk_level = summary.risk_level,
                     !.verdict_summary = "LLM verdict",
                     !.key_anomalies = <<Anomaly("llm", 0, 0, "")>>,
                     !.line_changes_map = ga_line_changes_map,
                     !.contributor_map = contributors,
                     !.metadata = metadata]

\* the structured response built when no parsing attempt succeeds
ParseFailure ==
    [NoResult EXCEPT !.kind = "analysis",
                     !.trust_score = 10,
                     !.risk_level = "High",
                     !.verdict_summary =
                        "Failed to parse LLM response into valid JSON format",
                     !.key_anomalies =
                        <<Anomaly("LLM response was not in valid JSON format",
                                  0, 0, "")>>,
                     !.line_changes_map = ga_line_changes_map,
                     !.contributor_map = contributors,
                     !.metadata = [commits_before |-> 0, commits_all |-> 0]]

\* the outer except of call_llm_for_analysis
LlmError(msg) ==
    [NoResult EXCEPT !.kind = "error",
                     !.error = "LLM analysis failed: " \o msg]

\* call_llm_for_analysis: the response of the LLM service
CallLlm ==
    /\ ga_pc = "llm"
    /\ ga_pc' = "returned"
    /\ \E status \in LlmStatuses :
         IF status # 200
         THEN /\ content' = content
              /\ result' = LlmError("ASI.AI API error: " \o ToString(status))
         ELSE \E c \in LlmContents :
                /\ content' = c
                /\ IF c = "no_message"
                   THEN result' = LlmError("Invalid API response format")
                   ELSE IF c = "null"
                   THEN result' = LlmError("TypeError")
                   ELSE IF c \in {"json", "fenced_json"}
                   THEN \E summary \in LlmSummaries :
                            result' = LlmAnalysis(summary)
                   ELSE result' = ParseFailure
    /\ UNCHANGED <<agent_vars, core_vars, args, raised, remote, response_status, page,
                   commits_page, page_i, all_commits, contributors, metadata>>

NextApi ==
    \/ AnalyzeRepo
    \/ HistoryPage
    \/ HistoryDetail
    \/ ContributorList
    \/ ContributorDetail
    \/ CommitsBefore
    \/ CommitsAll
    \/ CommitsAfter
    \/ CallLlm

SpecApi == InitApi /\ [][NextApi]_vars

----------------------------------------------------------------------------
(* The end of utils.get_contributor_stats on its own: the percentages and  *)
(* the sort, applied to the contributors dict its loop has filled, in      *)
(* which two authors may differ by a single added line.                    *)

TieAdds == {0, 10000, 10001}

\* the contributors dict after the loop, in the order the authors were
\* first met
ContributorDicts ==
    UNION {{[k \in 1..n |-> [user |-> Login(k), commits |-> 1,
                             additions |-> f[k], percentage |-> 0]] :
                f \in [1..n -> TieAdds]} : n \in 0..MaxPctContrib}

InitContrib ==
    /\ pc = "none"
    /\ args = <<>>
    /\ raised = ""
    /\ Constructed
    /\ ga_pc = "contributor_sort"
    /\ contributors \in ContributorDicts
    /\ remote = <<>>
    /\ response_status = 0
    /\ page = 0
    /\ commits_page = <<>>
    /\ page_i = 0
    /\ all_commits = <<>>
    /\ metadata = NoMetadata
    /\ content = ""
    /\ result = NoResult
    /\ NoAgentMessage

\* the list get_contributor_stats returns, as the contributor_map of the
\* project data
SortContributors ==
    /\ ga_pc = "contributor_sort"
    /\ ga_pc' = "contributor_sorted"
    /\ result' = [result EXCEPT !.contributor_map = contributor_list(contributors)]
    /\ UNCHANGED <<agent_vars, core_vars, args, raised, remote, response_status, page,
                   commits_page, page_i, all_commits, contributors, metadata,
                   content>>

NextContrib == SortContributors

SpecContrib == InitContrib /\ [][NextContrib]_vars

----------------------------------------------------------------------------
(* src/reciever.py and src/agent2.py: ReceiverAgent relays the text of a   *)
(* POST /rest/post request to agent2 and polls its storage for the reply.  *)
(* The handlers are coroutines of one event loop: a step is the code       *)
(* between two awaits.  Messages between the agents are delivered in any   *)
(* order and after any delay; req on a message in flight is bookkeeping of *)
(* the model that no handler reads.                                        *)

\* req.text
Texts == {"a", "b"}

\* max_retries of handle_post
post_max_retries == 5

NoResponseFromAgent2 == "No response from agent2"

\* response = f"Agent2 processed: {msg.message}"
Agent2Reply(text) == "Agent2 processed: " \o text

InitRelay ==
    /\ pc = "none"
    /\ args = <<>>
    /\ raised = ""
    /\ Constructed
    /\ NoAnalyzeRequest
    /\ NoChat
    /\ NoRelay

\* handle_post up to the end of `await ctx.send(AGENT2, ...)`: the old
\* response is cleared and the text is on its way to agent2
handle_post ==
    /\ Len(posts) < MaxPosts
    /\ last_response' = <<>>
    /\ \E text \in Texts :
          /\ to_agent2' = to_agent2 \cup {[req |-> Len(posts) + 1, message |-> text]}
          /\ posts' = Append(posts, [pc |-> "poll", text |-> text, polls |-> 0,
                                     response_from_agent |-> ""])
    /\ UNCHANGED <<to_receiver, chat_vars, core_vars, args, raised, ga_vars>>

\* one iteration of the loop of the handle_post of request r: the stored
\* response is taken and returned, or the handler sleeps; after
\* max_retries empty reads it returns "No response from agent2"
poll(r) ==
    /\ posts[r].pc = "poll"
    /\ IF last_response # <<>>
       THEN /\ posts' = [posts EXCEPT ![r].pc = "returned",
                                      ![r].response_from_agent = last_response[1]]
            /\ last_response' = <<>>
       ELSE /\ last_response' = last_response
            /\ posts' = IF posts[r].polls + 1 < post_max_retries
                        THEN [posts EXCEPT ![r].polls = @ + 1]
                        ELSE [posts EXCEPT ![r].polls = @ + 1,
                                           ![r].pc = "returned",
                                           ![r].response_from_agent =
                                               NoResponseFromAgent2]
    /\ UNCHANGED <<to_agent2, to_receiver, chat_vars, core_vars, args, raised,
                   ga_vars>>

\* message_handler of agent2: the reply to one delivered message is sent
\* back to its sender
agent2_message_handler ==
    \E m \in to_agent2 :
        /\ to_agent2' = to_agent2 \ {m}
        /\ to_receiver' = to_receiver \cup
                             {[req |-> m.req, message |-> Agent2Reply(m.message)]}
        /\ UNCHANGED <<last_response, posts, chat_vars, core_vars, args, raised,
                       ga_vars>>

\* message_handler of ReceiverAgent: one delivered message is stored
receiver_message_handler ==
    \E m \in to_receiver :
        /\ to_receiver' = to_receiver \ {m}
        /\ last_response' = <<m.message>>
        /\ UNCHANGED <<to_agent2, posts, chat_vars, core_vars, args, raised,
                       ga_vars>>

NextRelay ==
    \/ handle_post
    \/ \E r \in 1..Len(posts) : poll(r)
    \/ agent2_message_handler
    \/ receiver_message_handler

SpecRelay == InitRelay /\ [][NextRelay]_vars

----------------------------------------------------------------------------
(* src/atomspace_agent.py and src/sponser_agent/atomspace_agent.py: the    *)
(* handle_chat_message of the agent that runs.  The agent handles one      *)
(* message at a time.  A step is the part of the handler up to the point   *)
(* where control can leave the straight line: the end of the try block or  *)
(* the exception raised in it, the response of the language model, the     *)
(* except block, the send.                                                 *)

Agents == {"atomspace_agent", "sponser_agent"}

\* a ChatMessage: its content list is empty, its text is not JSON, is
\* JSON but no object, or is an object with an action; required is the
\* number of sponsor APIs a verify_project_integrity request names (known
\* APIs in sponsor_requirements, or the length of list_apis)
ChatMessages ==
    {[form |-> f, action |-> "", required |-> 0] :
        f \in {"no_content", "not_json", "not_object"}}
    \cup {[form |-> "object", action |-> a, required |-> 0] :
            a \in {"get_agent_info", "unknown"}}
    \cup {[form |-> "object", action |-> "verify_project_integrity",
           required |-> n] : n \in 0..MaxApis}

\* what the service of the language model answers: a status other than
\* 200, a body without message, a content that no parsing attempt reads,
\* a JSON object without the expected keys, or the expected JSON object
LlmOutcomes == {"status_error", "no_message", "unparseable", "other_json", "json"}

\* the text of a reply, before json.dumps
Reply(kind, error, m) == [kind |-> kind, error |-> error, metrics |-> m]

\* json.dumps({"error": "Unknown action"})
unknown_action == Reply("error", "Unknown action", NoMetrics)

\* json.dumps({"status": "ready", "address": ...})
agent_info == Reply("info", "", NoMetrics)

\* the except block answers with a report that carries no error
internal_error_without_field(e) == Reply("report", "", NoMetrics)

\* json.dumps({"error": f"Internal agent analysis failed: {str(e)}"})
internal_error(e) ==
    Reply("error", "Internal agent analysis failed: " \o e, NoMetrics)

\* int(integration_ratio * 70), for required_count > 0
base_score(verified_count, required_count) ==
    (verified_count * 70) \div required_count

\* int(code_originality_score * 0.3): original_percent is 0.3 in
\* src/atomspace_agent.py and 30 in src/sponser_agent
originality_score(a) == IF a = "atomspace_agent" THEN 0 ELSE 9

InitChat ==
    /\ pc = "none"
    /\ args = <<>>
    /\ raised = ""
    /\ Constructed
    /\ NoAnalyzeRequest
    /\ NoRelay
    /\ agent \in Agents
    /\ chat_pc = "idle"
    /\ chat_msg = NoChatMessage
    /\ metrics = NoMetrics
    /\ l = <<>>
    /\ response_text = <<>>
    /\ exception = ""
    /\ sent = <<>>
    /\ received = 0

\* a ChatMessage is delivered and handle_chat_message is called with it
deliver_chat_message ==
    /\ chat_pc = "idle"
    /\ received < MaxChat
    /\ received' = received + 1
    /\ chat_msg' \in ChatMessages
    /\ chat_pc' = "try"
    /\ metrics' = NoMetrics
    /\ l' = <<>>
    /\ response_text' = <<>>
    /\ exception' = ""
    /\ UNCHANGED <<agent, sent, relay_vars, core_vars, args, raised, ga_vars>>

Raise(e) ==
    /\ exception' = e
    /\ chat_pc' = "except"
    /\ response_text' = response_text

\* the try block up to the call of perform_ai_reasoning: the text is
\* parsed, the action is looked up and, for verify_project_integrity, the
\* knowledge graph is built.  The clone fails with a GitCommandError (no
\* file, nothing verified), the build raises, or it verifies some of the
\* required APIs.
handle_chat_message ==
    /\ chat_pc = "try"
    /\ IF chat_msg.form = "no_content" THEN Raise("IndexError") /\ metrics' = metrics
       ELSE IF chat_msg.form = "not_json"
       THEN Raise("JSONDecodeError") /\ metrics' = metrics
       ELSE IF chat_msg.form = "not_object"
       THEN Raise("AttributeError") /\ metrics' = metrics
       ELSE IF chat_msg.action = "verify_project_integrity"
       THEN \/ Raise("Exception") /\ metrics' = metrics
            \/ \E verified_count \in 0..chat_msg.required :
                  /\ metrics' = [metrics EXCEPT
                                    !.required_apis = chat_msg.required,
                                    !.verified_apis = verified_count]
                  /\ chat_pc' = "reasoning"
                  /\ UNCHANGED <<exception, response_text>>
       ELSE /\ response_text' = IF chat_msg.action = "get_agent_info"
                                THEN <<agent_info>> ELSE <<unknown_action>>
            /\ chat_pc' = "send"
            /\ UNCHANGED <<exception, metrics>>
    /\ UNCHANGED <<agent, chat_msg, l, sent, received, relay_vars, core_vars,
                   args, raised, ga_vars>>

\* perform_ai_reasoning up to its return, its exception or its request to
\* the language model.  In src/atomspace_agent.py integration_ratio is
\* bound only when required_count > 0 and the summary text reads it.
perform_ai_reasoning ==
    /\ chat_pc = "reasoning"
    /\ LET required_count == metrics.required_apis
           verified_count == metrics.verified_apis
           final_score ==
               (IF required_count > 0
                THEN base_score(verified_count, required_count) ELSE 0)
               + originality_score(agent)
           scored == [metrics EXCEPT !.integration_score = final_score]
       IN  /\ metrics' = scored
           /\ IF agent = "sponser_agent"
              THEN chat_pc' = "llm" /\ UNCHANGED <<exception, response_text>>
              ELSE IF required_count > 0
              THEN /\ response_text' = <<Reply("report", "", scored)>>
                   /\ chat_pc' = "send"
                   /\ exception' = exception
              ELSE Raise("UnboundLocalError")
    /\ UNCHANGED <<agent, chat_msg, l, sent, received, relay_vars, core_vars,
                   args, raised, ga_vars>>

\* src/sponser_agent: the response of the language model and the rest of
\* perform_ai_reasoning.  Every failure up to the parsing is caught and
\* leaves l None; the report reads l["owner_summary_analysis"] and
\* l["ai_summary"].
llm_response ==
    /\ chat_pc = "llm"
    /\ \E outcome \in LlmOutcomes :
         /\ l' = IF outcome \in {"other_json", "json"} THEN <<outcome>> ELSE <<>>
         /\ IF outcome = "json"
            THEN /\ response_text' = <<Reply("report", "", metrics)>>
                 /\ chat_pc' = "send"
                 /\ exception' = exception
            ELSE IF outcome = "other_json"
            THEN Raise("KeyError")
            ELSE Raise("TypeError")
    /\ UNCHANGED <<agent, chat_msg, metrics, sent, received, relay_vars,
                   core_vars, args, raised, ga_vars>>

\* except Exception as e
except_exception ==
    /\ chat_pc = "except"
    /\ response_text' = <<internal_error(exception)>>
    /\ chat_pc' = "send"
    /\ UNCHANGED <<agent, chat_msg, metrics, l, exception, sent, received,
                   relay_vars, core_vars, args, raised, ga_vars>>

\* await ctx.send(sender, response_msg)
send_reply ==
    /\ chat_pc = "send"
    /\ sent' = Append(sent, response_text[1])
    /\ chat_pc' = "idle"
    /\ UNCHANGED <<agent, chat_msg, metrics, l, response_text, exception,
                   received, relay_vars, core_vars, args, raised, ga_vars>>

NextChat ==
    \/ deliver_chat_message
    \/ handle_chat_message
    \/ perform_ai_reasoning
    \/ llm_response
    \/ except_exception
    \/ send_reply

SpecChat == InitChat /\ [][NextChat]_vars

\* every call the handler makes returns or raises, and the send completes
SpecChatFair ==
    /\ SpecChat
    /\ WF_vars(handle_chat_message)
    /\ WF_vars(perform_ai_reasoning)
    /\ WF_vars(llm_response)
    /\ WF_vars(except_exception)
    /\ WF_vars(send_reply)

----------------------------------------------------------------------------
(* Properties of the returned report.  The facts about the analysed        *)
(* commits are taken from commit_analyses and contributor_stats, not from  *)
(* the operators that build the report.                                    *)

Analysed == 1..Len(commit_analyses)
IsBefore(k) == commit_analyses[k].date < hackathon_start
IsAfter(k) == commit_analyses[k].date > hackathon_end
IsDuring(k) == ~IsBefore(k) /\ ~IsAfter(k)
InWindow == {k \in Analysed : IsDuring(k)}

\* the commits of S with the earliest timestamp
Earliest(S) ==
    {k \in S : \A j \in S : commit_analyses[k].date <= commit_analyses[j].date}

\* the rule kinds of key_anomalies, in order
AnomalyRules == [k \in 1..Len(report.key_anomalies) |-> report.key_anomalies[k].rule]

HasAnomaly(rule) == \E k \in 1..Len(report.key_anomalies) : report.key_anomalies[k].rule = rule

\* the top contributor's displayed percentage is above 90
Imbalance == \E k \in 1..Len(report.contributor_map) : report.contributor_map[k].percentage > 9000

\* the last analysed commit, in the order of the API, has > 5000 additions
LastIsMassive ==
    commit_analyses # <<>> /\ commit_analyses[Len(commit_analyses)].additions > 5000

\* the last in-window commit, in the order of the API, has > 5000 additions
LastInWindowIsMassive ==
    \E k \in InWindow : /\ \A j \in InWindow : j <= k
                        /\ commit_analyses[k].additions > 5000

RiskOf(score) == IF score < 40 THEN "High" ELSE IF score < 70 THEN "Medium" ELSE "Low"

\* C1: every returned report has 0.0 <= trust_score <= 1.0
C1_TrustScoreInRange ==
    Returned => (0 <= report.trust_score /\ report.trust_score <= 100)

\* C2: no analysed commit inside the window and at least one outside: the
\* report has trust_score 0.0, risk High and a first anomaly that reports
\* no development activity during the period
C2_EmptyWindowOverride ==
    (Returned /\ InWindow = {} /\ Analysed # {})
        => /\ report.trust_score = 0
           /\ report.risk_level = "High"
           /\ report.key_anomalies # <<>>
           /\ report.key_anomalies[1].rule = "no_activity"

\* C3: the commit with the earliest timestamp of the whole history has
\* additions > 5000: trust_score 0.3, risk High and the massive code dump
\* verdict, whatever the order of the API; additions <= 5000: no override
C3_EarliestCommitOverride ==
    (Returned /\ Analysed # {})
        => /\ (\A k \in Earliest(Analysed) : commit_analyses[k].additions > 5000)
                => /\ report.trust_score = 30
                   /\ report.risk_level = "High"
                   /\ report.verdict_summary.kind = "dump"
           /\ (\A k \in Earliest(Analysed) : commit_analyses[k].additions <= 5000)
                => /\ report.verdict_summary.kind # "dump"
                   /\ ~HasAnomaly("detected")

\* C4: the massive initial commit rule fires exactly when the commit with
\* the earliest timestamp inside the window has additions > 5000
C4_MassiveRuleOnEarliestInWindow ==
    Returned
        => /\ (InWindow # {} /\ \A k \in Earliest(InWindow) :
                                    commit_analyses[k].additions > 5000)
                => HasAnomaly("massive")
           /\ (\A k \in Earliest(InWindow) : commit_analyses[k].additions <= 5000)
                => ~HasAnomaly("massive")

\* C5: risk_level is High below a reported trust_score of 0.4, Medium
\* below 0.7 and Low otherwise
C5_RiskFromReportedScore ==
    Returned => report.risk_level = RiskOf(report.trust_score)

\* the entries of the four rules, in the order of their evaluation
RuleEntries ==
    (IF \E k \in Analysed : IsBefore(k) THEN <<"before">> ELSE <<>>)
    \o (IF \E k \in Analysed : IsAfter(k) THEN <<"after">> ELSE <<>>)
    \o (IF LastInWindowIsMassive THEN <<"massive">> ELSE <<>>)
    \o (IF Imbalance THEN <<"imbalance">> ELSE <<>>)

\* C6 as stated: key_anomalies holds exactly one entry per triggered rule,
\* in the order before, after, massive, imbalance
C6_OneEntryPerRule ==
    Returned => AnomalyRules = RuleEntries

\* C6 amended: one entry per triggered rule in that order, followed by one
\* "Massive initial commit detected" entry exactly when the massive code
\* dump override fires
C6_OneEntryPerRuleThenOverride ==
    Returned =>
        AnomalyRules = RuleEntries \o (IF LastIsMassive THEN <<"detected">> ELSE <<>>)

C6_Witness ==
    /\ Returned
    /\ LastIsMassive
    /\ Len(report.key_anomalies) = 4
    /\ report.key_anomalies[1].rule = "before"

\* every analysed commit lies before the window and nothing else triggers
OnlyBeforeRule ==
    /\ Returned
    /\ Analysed # {}
    /\ \A k \in Analysed : IsBefore(k)
    /\ ~Imbalance
    /\ ~LastIsMassive

OnlyImbalanceRule ==
    /\ Returned
    /\ Len(contributor_stats) = 2
    /\ {contributor_stats[1].additions, contributor_stats[2].additions} = {5, 95}
    /\ \A k \in Analysed : IsDuring(k)
    /\ ~LastInWindowIsMassive
    /\ ~LastIsMassive

\* C8 as stated: top contributor at 95% and no other rule: trust_score
\* == 0.7 and risk_level == "Medium"
C8_ImbalanceMedium ==
    OnlyImbalanceRule => (report.trust_score = 70 /\ report.risk_level = "Medium")

\* C8 amended: top contributor at 95% and no other rule: trust_score ==
\* 0.7 and risk_level == "Low", 0.7 being not below the 0.7 threshold
C8_ImbalanceLow ==
    OnlyImbalanceRule
        => /\ report.trust_score = 70
           /\ report.risk_level = "Low"
           /\ HasAnomaly("imbalance")

C8_Witness == OnlyImbalanceRule /\ Analysed # {} /\ HasAnomaly("imbalance")

\* the history is a single commit with 6000 additions inside the window
SingleMassiveCommit ==
    /\ Returned
    /\ Len(commits) = 1
    /\ Len(commit_analyses) = 1
    /\ commit_analyses[1].additions = 6000
    /\ IsDuring(1)

\* C9: a single commit with 6000 additions inside the window: trust_score
\* == 0.3, risk High and a massive initial commit entry in key_anomalies
C9_SingleMassiveCommit ==
    SingleMassiveCommit
        => /\ report.trust_score = 30
           /\ report.risk_level = "High"
           /\ (HasAnomaly("massive") \/ HasAnomaly("detected"))

C9_Witness == SingleMassiveCommit /\ HasAnomaly("detected")

\* C10: the three counts of commit_timing add up to total_commits, the
\* number of analysed commits, each of which is counted exactly once
C10_PartitionCounts ==
    Returned
        => /\ report.total_commits = Len(commit_analyses)
           /\ report.before_hackathon + report.during_hackathon
                + report.after_hackathon = report.total_commits
           /\ report.before_hackathon = Cardinality({k \in Analysed : IsBefore(k)})
           /\ report.after_hackathon = Cardinality({k \in Analysed : IsAfter(k)})
           /\ report.during_hackathon = Cardinality(InWindow)

C10_Witness ==
    /\ Returned
    /\ report.total_commits = 2
    /\ report.during_hackathon = 1
    /\ \E k \in Analysed : commit_analyses[k].date = hackathon_end

----------------------------------------------------------------------------
(* Properties of the window boundaries, of the fetch and of construction   *)

\* C11: the window is inclusive at both ends: a commit stamped exactly at
\* the start or exactly at the end is counted as during the hackathon, a
\* commit is counted as before only when strictly earlier than the start
\* and as after only when strictly later than the end
C11_InclusiveBoundaries ==
    Returned
        => /\ report.during_hackathon =
                Cardinality({k \in Analysed :
                    /\ commit_analyses[k].date >= hackathon_start
                    /\ commit_analyses[k].date <= hackathon_end})
           /\ report.before_hackathon =
                Cardinality({k \in Analysed :
                    commit_analyses[k].date < hackathon_start})
           /\ report.after_hackathon =
                Cardinality({k \in Analysed :
                    commit_analyses[k].date > hackathon_end})

C11_Witness ==
    /\ Returned
    /\ \E k \in Analysed : commit_analyses[k].date = hackathon_start
    /\ \E k \in Analysed : commit_analyses[k].date = hackathon_end
    /\ report.during_hackathon = 2
    /\ report.before_hackathon = 0
    /\ report.after_hackathon = 0

\* C12: the fetched commit list is complete: every commit of the
\* repository's history is in the list the analysis works on, also when
\* the history holds more commits than one page carries
C12_AllCommitsFetched ==
    Returned => Len(commits) = remote_len

\* C13: a list response that reports no requests left before a reset that
\* lies in the future makes the analyzer wait and then go on: the run does
\* not end with a failure result because of the rate limit alone
C13_RateLimitNeverFails ==
    (pc = "done" /\ commits_status = 200 /\ rate_limit_sleep(commits_hdr) > 0)
        => report.status = "ok"

\* the messages that tell the caller the repository was not found
NotFoundErrors ==
    {"Repository not found", "Failed to fetch commits. Status: 404"}

\* C14: a 404 on the commit list request ends the run with the failure
\* that names the missing repository, any other non-200 status with
\* another, generic failure; neither produces a report
C14_NotFoundIsDistinct ==
    (pc = "done" /\ commits_status # 200)
        => /\ report.status = "error"
           /\ (commits_status = 404) <=> (report.error \in NotFoundErrors)

\* C15: a detail response with a status other than 200 skips that commit
\* only: the list of analysed commits is unchanged, the loop goes on to
\* the next commit, and after the last commit the run ends with a report
\* over the commits whose detail request succeeded
C15_DetailFailureSkipsOneCommit ==
    [][(pc = "loop" /\ detail_status' # 200)
         => /\ commit_analyses' = commit_analyses
            /\ i' = i + 1
            /\ IF i + 1 < Len(commits)
               THEN pc' = "loop" /\ report' = report
               ELSE /\ pc' = "done"
                    /\ report'.status = "ok"
                    /\ report'.total_commits = Len(commit_analyses)]_vars

C15_Witness ==
    /\ Returned
    /\ detail_status = 404
    /\ requests_remaining > 0
    /\ Len(commits) = 2
    /\ Len(commit_analyses) = 1
    /\ commit_analyses[1].sha = 1
    /\ report.total_commits = 1

\* C16: get_contributor_stats sends at most max_retries = 3 requests: a
\* request is sent only after fewer than 3 answers of 202, and an answer of
\* 202 is followed by another request only before the third.  When the
\* third answer is 202 too it returns empty stats, and the analysis goes on
\* to a report whose contributor_map is empty.
C16_StatsRetryBounded ==
    /\ [](pc = "stats" => attempt < max_retries)
    /\ []((Returned /\ stats_status = 202)
            => /\ contributor_stats = <<>>
               /\ report.contributor_map = <<>>
               /\ report.total_contributors = 0)
    /\ [][(pc = "stats" /\ stats_status' = 202)
            => IF attempt + 1 < max_retries
               THEN pc' = "stats" /\ attempt' = attempt + 1
               ELSE /\ contributor_stats' = <<>>
                    /\ IF commits = <<>>
                       THEN pc' = "done" /\ report'.status = "ok"
                       ELSE pc' = "loop"]_vars

C16_Witness ==
    /\ Returned
    /\ stats_status = 202
    /\ commit_analyses # <<>>
    /\ report.contributor_map = <<>>

\* the two texts do not name a window: one is malformed, or the end they
\* name is before the start
InvalidWindow(a) ==
    \/ ~a[1].wellformed
    \/ ~a[2].wellformed
    \/ a[2].instant < a[1].instant

\* C17: a malformed date text, or an end before the start, is rejected by
\* the constructor with an error, before any request is sent
C17_InvalidWindowRejected ==
    [][(pc = "init" /\ InvalidWindow(args))
         => (pc' = "raised" /\ raised' # "" /\ ~request_sent')]_vars

C17_Witness ==
    /\ pc = "raised"
    /\ args[1].wellformed /\ args[2].wellformed
    /\ args[2].instant < args[1].instant
    /\ raised = "Hackathon end date cannot be before start date"
    /\ ~request_sent

----------------------------------------------------------------------------
(* Properties of the contributor percentages, in hundredths of a percent   *)

RECURSIVE SumPercentages(_)
SumPercentages(m) ==
    IF m = <<>> THEN 0 ELSE Head(m).percentage + SumPercentages(Tail(m))

\* the distance of the sum of the reported percentages from 100
PercentageDeviation ==
    LET sum == SumPercentages(report.contributor_map)
    IN  IF sum < 10000 THEN 10000 - sum ELSE sum - 10000

\* C20: the reported percentages sum to 100 within 0.01 when the total of
\* the additions is positive, whatever the number of contributors and the
\* split, and to 0 when the total is 0
C20_PercentagesSumTo100 ==
    pc = "percentages_done"
        => IF SumAdditions(contributor_stats) > 0
           THEN PercentageDeviation <= 1
           ELSE SumPercentages(report.contributor_map) = 0

\* C20, amended: each percentage is rounded to two decimals on its own, so
\* the sum is within 0.005 per contributor of 100 (within 0.01 for up to
\* three contributors) when the total is positive, and 0 when it is 0
C20_PercentagesSumWithinRounding ==
    pc = "percentages_done"
        => /\ Len(report.contributor_map) = Len(contributor_stats)
           /\ IF SumAdditions(contributor_stats) > 0
              THEN /\ 2 * PercentageDeviation <= Len(contributor_stats)
                   /\ Len(contributor_stats) <= 3 => PercentageDeviation <= 1
              ELSE SumPercentages(report.contributor_map) = 0

\* six contributors with equal additions: 6 * 16.67 = 100.02
C20_Witness ==
    /\ pc = "percentages_done"
    /\ Len(contributor_stats) = 6
    /\ \A k \in 1..6 : contributor_stats[k].additions = 7
    /\ SumPercentages(report.contributor_map) = 10002

----------------------------------------------------------------------------
(* Properties of a request to /analyze (src/github_agent)                  *)

\* C18: every failure of an analysis request reaches the caller of
\* /analyze as an {error: message} result: no exception leaves
\* analyze_repo, and a request with an invalid window, or one whose list
\* request was answered with a status other than 200, returns an error
C18_FailuresReachCallerAsError ==
    /\ ga_pc # "exception"
    /\ raised = ""
    /\ (ga_pc = "returned" /\ response_status # 200)
          => (result.kind = "error" /\ result.error # "")

\* the contents no parsing attempt of call_llm_for_analysis succeeds on
UnparseableContents == {"json_other", "fenced_other", "text"}

\* the commits and the contributor stats of the request, as the rule table
\* of the deterministic scorer takes them
HeuristicCommits ==
    [k \in 1..Len(all_commits) |->
        [sha |-> all_commits[k].sha, date |-> all_commits[k].date,
         additions |-> all_commits[k].additions, index |-> k - 1]]

HeuristicStats ==
    [k \in 1..Len(contributors) |->
        [user |-> contributors[k].user, additions |-> contributors[k].additions]]

\* C19: when the content of the LLM cannot be parsed as the expected JSON,
\* the result carries the trust_score, risk_level and key_anomalies the
\* rule table computes for the same commits and contributors
C19_UnparseableOracleKeepsHeuristic ==
    (ga_pc = "returned" /\ content \in UnparseableContents)
        => LET heuristic == analysis_result(HeuristicCommits, HeuristicStats)
           IN  /\ result.trust_score = heuristic.trust_score
               /\ result.risk_level = heuristic.risk_level
               /\ result.key_anomalies = heuristic.key_anomalies

----------------------------------------------------------------------------
(* Properties of the graph data, the verdict and the metadata              *)

\* m is in descending order of percentage
DescendingPercentage(m) ==
    \A k \in 1..Len(m) : \A j \in 1..Len(m) :
        k < j => m[k].percentage >= m[j].percentage

\* the position of a user in the order of first encounter
EncounterIndex(d, user) == CHOOSE k \in 1..Len(d) : d[k].user = user

\* entries of m with equal percentage are in the order of first encounter
\* of their users in d
TiesInEncounterOrder(m, d) ==
    \A k \in 1..Len(m) : \A j \in 1..Len(m) :
        (k < j /\ m[k].percentage = m[j].percentage)
            => EncounterIndex(d, m[k].user) < EncounterIndex(d, m[j].user)

\* C21: contributor_map is in descending order of percentage, holds every
\* contributor, and contributors with equal percentage keep the order in
\* which they were first encountered
C21_ContributorMapStableDescending ==
    ga_pc = "contributor_sorted"
        => /\ Len(result.contributor_map) = Len(contributors)
           /\ DescendingPercentage(result.contributor_map)
           /\ TiesInEncounterOrder(result.contributor_map, contributors)

\* m is in ascending order of date
AscendingDate(m) ==
    \A k \in 1..Len(m) : \A j \in 1..Len(m) : k < j => m[k].date <= m[j].date

\* C22: line_changes_map lists all analysed commits in ascending order of
\* timestamp, whatever the order in which the API listed them
C22_TimelineChronological ==
    (ga_pc = "returned" /\ result.kind = "analysis")
        => /\ Len(result.line_changes_map) = Len(all_commits)
           /\ AscendingDate(result.line_changes_map)

\* C23: the verdict is the fixed organic development sentence only when
\* no anomaly was triggered and the risk is Low; a report with a
\* non-empty key_anomalies has a verdict that names anomalies instead
C23_OrganicVerdictOnlyWithoutAnomalies ==
    Returned
        => /\ report.verdict_summary.kind = "organic"
                => (report.key_anomalies = <<>> /\ report.risk_level = "Low")
           /\ report.key_anomalies # <<>>
                => report.verdict_summary.kind \in {"red_flags", "concerns", "dump"}

\* a contributor holds strictly more than 90% of the additions
ShareAbove90 ==
    \E k \in 1..Len(contributor_stats) :
        10 * contributor_stats[k].additions > 9 * SumAdditions(contributor_stats)

\* C24: the contributor imbalance rule compares the unrounded share of the
\* top contributor against 90: it triggers exactly when a contributor
\* holds strictly more than 90% of the additions, 90.004% included
C24_ImbalanceOnUnroundedShare ==
    pc = "scored" => (ShareAbove90 <=> HasAnomaly("imbalance"))

\* C25: every commit of the fetched list whose detail response has status
\* 200 is added to the analysed commits, also when that response reports
\* that no requests remain before the reset of the rate limit
C25_FetchedDetailIsAnalysed ==
    [][(pc = "loop" /\ detail_status' = 200)
         => /\ Len(commit_analyses') = Len(commit_analyses) + 1
            /\ commit_analyses'[Len(commit_analyses')].sha = i + 1]_vars

\* C26: first_commit is the earliest and last_commit the latest timestamp
\* among all analysed commits, whatever the order of the API and whatever
\* the partition the commits fall in
C26_FirstAndLastCommit ==
    (Returned /\ Analysed # {})
        => /\ \E k \in Analysed : report.first_commit = commit_analyses[k].date
           /\ \A k \in Analysed : report.first_commit <= commit_analyses[k].date
           /\ \E k \in Analysed : report.last_commit = commit_analyses[k].date
           /\ \A k \in Analysed : report.last_commit >= commit_analyses[k].date

----------------------------------------------------------------------------
(* Properties of the agents                                                *)

\* C27: for any interleaving of POST requests and message deliveries, the
\* response_from_agent returned for a request is the reply of agent2 to
\* the text of that request (or the notice that no reply came), never the
\* reply to the text of another request
C27_ResponseIsOwnReply ==
    \A r \in 1..Len(posts) :
        posts[r].pc = "returned"
            => posts[r].response_from_agent
                   \in {Agent2Reply(posts[r].text), NoResponseFromAgent2}

\* the handler raised, or the message names no known action
ErrorCase ==
    \/ exception # ""
    \/ chat_msg.form = "object"
            /\ chat_msg.action \notin {"verify_project_integrity", "get_agent_info"}

\* C28: for every ChatMessage handle_chat_message receives, whatever its
\* action and whether or not the processing raises, the agent sends
\* exactly one reply: a reply is sent for every message handled, none
\* without a message, the handler always gets to its send, and the reply
\* carries an error field when the processing raised or the action is
\* unknown
C28_ExactlyOneReply ==
    /\ [](Len(sent) = IF chat_pc = "idle" THEN received ELSE received - 1)
    /\ [][chat_pc = "send"
            => /\ sent' = Append(sent, response_text[1])
               /\ ErrorCase => (response_text[1].kind = "error"
                                  /\ response_text[1].error # "")]_vars
    /\ [][sent' # sent => chat_pc = "send"]_vars
    /\ (chat_pc # "idle") ~> (chat_pc = "idle")

C28_Witness ==
    /\ agent = "sponser_agent"
    /\ chat_pc = "idle"
    /\ received = 2
    /\ Len(sent) = 2
    /\ sent[1] = unknown_action
    /\ exception = "TypeError"
    /\ sent[2] = internal_error("TypeError")

\* C29: in the sponsor agent a failed or unparseable answer of the
\* language model (one that leaves l None) does not keep the computed
\* metrics from the sender: the handler goes on to send a verification
\* report with integration_score, required_apis and verified_apis
C29_MetricsSurviveLlmFailure ==
    [][(agent = "sponser_agent" /\ chat_pc = "llm" /\ l' = <<>>)
         => /\ chat_pc' = "send"
            /\ response_text' = <<Reply("report", "", metrics)>>]_vars

\* C30: in src/atomspace_agent.py a verify_project_integrity request that
\* names none of the known APIs gets a verification report with base
\* integration score 0 from perform_ai_reasoning, not an error reply
C30_NoRequiredApisGivesReport ==
    [][(agent = "atomspace_agent" /\ chat_pc = "reasoning"
            /\ metrics.required_apis = 0)
         => /\ chat_pc' = "send"
            /\ response_text'[1].kind = "report"
            /\ response_text'[1].metrics.integration_score
                  = originality_score(agent)
            /\ response_text'[1].metrics.required_apis = 0]_vars

====
